---- MODULE Spec2Model ----
(***************************************************************************)
(* Chunking and thresholded retrieval of the RAG proofs of concept.        *)
(*                                                                         *)
(*   01_az_rag_poc/src/embedding_pipeline.py   TextChunker                 *)
(*   01_lc_rag_poc/src/retriever.py            Retriever                   *)
(*                                                                         *)
(* A Python str is a sequence of one-character strings.  Indices into a    *)
(* text (start, end, the results of rfind) keep Python's 0-based values,   *)
(* negative ones included: text[i] of the source is text[i + 1] here.      *)
(***************************************************************************)
EXTENDS Integers, Sequences, FiniteSets, TLC

(***************************************************************************)
(* Bounds of the model.                                                    *)
(***************************************************************************)
\* longest text handed to split_text when one document is chunked
MaxLen == 5
\* largest chunk_size / chunk_overlap passed to TextChunker(...)
MaxSize == 3
\* most documents handed to chunk_documents in one call
MaxDocs == 2
\* longest page_content of a document when several documents are chunked
DocLen == 2
\* most (document, score) pairs the similarity search returns
MaxResults == 3
\* scores and thresholds are hundredths drawn from 0 .. MaxScore
MaxScore == 3

\* iterations of the while loop that are counted, and chunks that are kept:
\* a call that returns never gets this far (IterCapNotReached), so only the
\* calls that loop forever are cut here
IterCap == MaxLen + 2

NL == "\n"
Chars == {"a", ".", " ", NL}
SnapChars == {"a", ".", " "}
DocChars == {"a", ".", " "}

Max2(a, b) == IF a >= b THEN a ELSE b
Min2(a, b) == IF a <= b THEN a ELSE b
SetMax(S) == CHOOSE x \in S : \A y \in S : y <= x
SetMin(S) == CHOOSE x \in S : \A y \in S : x <= y

TextsOver(alphabet, n) == UNION {[1..k -> alphabet] : k \in 0..n}

(***************************************************************************)
(* Python str operations used by split_text.                               *)
(***************************************************************************)
\* a slice bound i of a sequence of length n, as Python normalises it
SliceIndex(i, n) == IF i < 0 THEN Max2(i + n, 0) ELSE Min2(i, n)

\* text[i:j]
Slice(s, i, j) ==
    LET a == SliceIndex(i, Len(s))
        b == SliceIndex(j, Len(s))
    IN  IF a >= b THEN <<>> ELSE SubSeq(s, a + 1, b)

\* text.rfind(c, i, j) for a one-character c: the highest 0-based index in
\* the slice [i:j] holding c, -1 when there is none
RFind(s, c, i, j) ==
    LET a == SliceIndex(i, Len(s))
        b == SliceIndex(j, Len(s))
        hits == {k \in a..(b - 1) : s[k + 1] = c}
    IN  IF hits = {} THEN -1 ELSE SetMax(hits)

IsSpace(c) == c \in {" ", NL}

\* s.strip()
Strip(s) ==
    LET keep == {k \in 1..Len(s) : ~IsSpace(s[k])}
    IN  IF keep = {} THEN <<>> ELSE SubSeq(s, SetMin(keep), SetMax(keep))

(***************************************************************************)
(* TextChunker.split_text, the steps of one iteration of the while loop.    *)
(***************************************************************************)
\* the search for a boundary reaching one character past the window
WindowEndInclusive(t, size, st) ==
    LET end == st + size
        last_period == RFind(t, ".", st, end + 1)
        last_newline == RFind(t, NL, st, end + 1)
    IN  IF end < Len(t) /\ (last_period > st \/ last_newline > st)
        THEN Max2(last_period, last_newline) + 1
        ELSE end

\* lines 49-56: the end of the window that begins at start
WindowEnd(t, size, st) ==
    LET end == st + size
        last_period == RFind(t, ".", st, end)
        last_newline == RFind(t, NL, st, end)
    IN  IF end < Len(t) /\ (last_period > st \/ last_newline > st)
        THEN Max2(last_period, last_newline) + 1
        ELSE end

\* line 58
WindowChunk(t, st, end) == Strip(Slice(t, st, end))

\* line 64
NextStart(end, overlap) == end - overlap

\* lines 42-43: the text is returned whole
IsShort(t, size) == Len(t) <= size

\* a short text trimmed like the chunks of the loop are
ShortResultTrimmed(t) == <<Strip(t)>>

ShortResult(t) == <<t>>

VARIABLES
    ctor_args,      \* <<chunk_size, chunk_overlap>> passed to TextChunker(...)
    documents,      \* the argument of chunk_documents
    pc,             \* where the chunker is
    chunk_size,     \* self.chunk_size
    chunk_overlap,  \* self.chunk_overlap
    doc_idx,        \* documents handled by the for loop of chunk_documents
    text,           \* split_text: the argument
    start,          \* split_text: start
    chunks,         \* split_text: chunks
    iters,          \* split_text: iterations of the while loop so far
    split_returns,  \* the value each split_text call returned, in call order
    chunked_docs,   \* chunk_documents: chunked_docs
    r_pc,                 \* where the retriever is
    k_used,               \* retrieve_with_threshold: k after its default
    score_threshold,      \* retrieve_with_threshold: score_threshold
    results_with_scores,  \* retrieve_with_threshold: results_with_scores
    filtered_results,     \* retrieve_with_threshold: the value returned
    variant,         \* which RAG program runs: "lc" (LangChain) or "az" (Azure)
    q_pc,            \* where RAGChain.query / the format call is
    return_sources,  \* query: return_sources
    matches,         \* query: documents; format call: its argument
    context,         \* the formatted context, a sequence of string pieces
    q_result,        \* the dictionary query returned
    llm_calls,       \* chat-model calls made so far
    search_calls,    \* similarity-search calls made so far
    search_failed,   \* the similarity-search call raised
    store,           \* the items of the Cosmos DB container
    clock,           \* the latest reading of datetime.utcnow()
    mem_call,        \* the latest ConversationMemory call, what it returned
                     \* and how many items it removed from the container
    active_agents,   \* app.active_agents: session id -> agent (0: no entry)
    agents,          \* the BaseAgent objects constructed, by number
    inflight,        \* process_task requests awaiting the chat model
    tasks_started,   \* process_task calls that saved their user message
    response,        \* the latest HTTP response of the agent API
    live,            \* session ids created and not deleted since
    issued,          \* session ids that a request named or uuid4 produced
    orchestration,   \* one run of process_document_orchestrator
    invoice_call,    \* one call of process_invoice: what was analysed, what
                     \* came back
    embed_call       \* one call of AzureOpenAIEmbedder.embed_documents

chunker_vars == <<ctor_args, documents, pc, chunk_size, chunk_overlap, doc_idx,
                  text, start, chunks, iters, split_returns, chunked_docs>>

retriever_vars == <<r_pc, k_used, score_threshold, results_with_scores,
                    filtered_results>>

rag_vars == <<variant, q_pc, return_sources, matches, context, q_result,
              llm_calls, search_calls, search_failed>>

memory_vars == <<store, clock, mem_call>>

api_vars == <<active_agents, agents, inflight, tasks_started, response, live,
              issued>>

pipeline_vars == <<orchestration, invoice_call>>

non_chunker_vars == <<retriever_vars, rag_vars, memory_vars, api_vars,
                      pipeline_vars, embed_call>>

non_retriever_vars == <<chunker_vars, rag_vars, memory_vars, api_vars,
                        pipeline_vars, embed_call>>

non_rag_vars == <<chunker_vars, retriever_vars, memory_vars, api_vars,
                  pipeline_vars, embed_call>>

non_agent_vars == <<chunker_vars, retriever_vars, rag_vars, pipeline_vars,
                    embed_call>>

non_pipeline_vars == <<chunker_vars, retriever_vars, rag_vars, memory_vars,
                       api_vars, embed_call>>

non_embedder_vars == <<chunker_vars, retriever_vars, rag_vars, memory_vars,
                       api_vars, pipeline_vars>>

vars == <<chunker_vars, retriever_vars, rag_vars, memory_vars, api_vars,
          pipeline_vars, embed_call>>

Configs == (-1..MaxSize) \X (-1..MaxSize)

Document(content, source, page) ==
    [page_content |-> content, metadata |-> [source |-> source, page |-> page]]

InitChunker ==
    /\ pc = "new"
    /\ chunk_size = 0
    /\ chunk_overlap = 0
    /\ doc_idx = 0
    /\ text = <<>>
    /\ start = 0
    /\ chunks = <<>>
    /\ iters = 0
    /\ split_returns = <<>>
    /\ chunked_docs = <<>>

\* no retrieval has been asked for
InitRetriever ==
    /\ r_pc = "idle"
    /\ k_used = 0
    /\ score_threshold = 0
    /\ results_with_scores = <<>>
    /\ filtered_results = <<>>

\* one document of every text up to MaxLen, every configuration
\* no query and no format call has been made
NoResult == [answer |-> "", sources |-> <<>>]

InitRagFor(v) ==
    /\ variant = v
    /\ q_pc = "idle"
    /\ return_sources = TRUE
    /\ matches = <<>>
    /\ context = <<>>
    /\ q_result = NoResult
    /\ llm_calls = 0
    /\ search_calls = 0
    /\ search_failed = FALSE

InitRag == InitRagFor("lc")

SessionIds == {"s1", "s2"}

\* no ConversationMemory call has been made
NoCall ==
    [op |-> "none", session_id |-> "", limit |-> 0, ok |-> TRUE,
     messages |-> <<>>, returned |-> 0,
     removed |-> 0]

InitMemory ==
    /\ store = {}
    /\ clock = 0
    /\ mem_call = NoCall

\* no request has been answered
NoResponse ==
    [kind |-> "none", session_id |-> "", status |-> 0, success |-> FALSE,
     result_session_id |-> "", llm_ok |-> FALSE, reply_saved |-> FALSE,
     agent |-> 0, active_sessions |-> 0]

InitApi ==
    /\ active_agents = [sid \in SessionIds |-> 0]
    /\ agents = <<>>
    /\ inflight = {}
    /\ tasks_started = 0
    /\ response = NoResponse
    /\ live = {}
    /\ issued = {}

\* process_document_orchestrator has not been started
NoRun ==
    [pc |-> "new", blob_name |-> "", document_type |-> "", processor |-> "",
     needs_review |-> FALSE, events |-> <<>>, result |-> "none"]

\* process_invoice has not been called
NoInvoice ==
    [pc |-> "idle", recognised |-> FALSE, amounts |-> <<>>, total |-> "None",
     math_valid |-> FALSE, anomalies |-> 0, needs_review |-> FALSE]

InitPipeline ==
    /\ orchestration = NoRun
    /\ invoice_call = NoInvoice

\* embed_documents has not been called
NoEmbedding ==
    [pc |-> "idle", documents |-> <<>>, i |-> 0, calls |-> <<>>,
     embedded_docs |-> <<>>]

InitEmbedder == embed_call = NoEmbedding

Init ==
    /\ ctor_args \in Configs
    /\ \E t \in TextsOver(Chars, MaxLen) : documents = <<Document(t, "a.pdf", 0)>>
    /\ InitChunker
    /\ InitRetriever
    /\ InitRag
    /\ InitMemory
    /\ InitApi
    /\ InitPipeline
    /\ InitEmbedder

\* TextChunker.__init__
Construct ==
    /\ pc = "new"
    /\ chunk_size' = ctor_args[1]
    /\ chunk_overlap' = ctor_args[2]
    /\ pc' = "ready"
    /\ UNCHANGED <<ctor_args, documents, doc_idx, text, start, chunks, iters,
                   split_returns, chunked_docs>>
    /\ UNCHANGED non_chunker_vars

\* chunk_documents is called: line 82
ChunkDocumentsCall ==
    /\ pc = "ready"
    /\ chunked_docs' = <<>>
    /\ doc_idx' = 0
    /\ pc' = "for_doc"
    /\ UNCHANGED <<ctor_args, documents, chunk_size, chunk_overlap, text, start,
                   chunks, iters, split_returns>>
    /\ UNCHANGED non_chunker_vars

NewChunksKept(previous) == previous

\* line 46: chunks = [], whatever an earlier call left behind
NewChunks(previous) == <<>>

\* lines 84-89 and 42-46: the next document's text enters split_text
SplitEnter ==
    /\ pc = "for_doc"
    /\ doc_idx < Len(documents)
    /\ LET t == documents[doc_idx + 1].page_content
       IN  /\ text' = t
           /\ start' = 0
           /\ iters' = 0
           /\ IF IsShort(t, chunk_size)
              THEN /\ chunks' = ShortResult(t)
                   /\ pc' = "emit"
              ELSE /\ chunks' = NewChunks(chunks)
                   /\ pc' = "while"
    /\ UNCHANGED <<ctor_args, documents, chunk_size, chunk_overlap, doc_idx,
                   split_returns, chunked_docs>>
    /\ UNCHANGED non_chunker_vars

\* line 48: the test of the while loop
WhileTest ==
    /\ pc = "while"
    /\ pc' = IF start < Len(text) THEN "body" ELSE "emit"
    /\ UNCHANGED <<ctor_args, documents, chunk_size, chunk_overlap, doc_idx,
                   text, start, chunks, iters, split_returns, chunked_docs>>
    /\ UNCHANGED non_chunker_vars

\* lines 49-68: the body of the while loop, the break included
LoopBody ==
    /\ pc = "body"
    /\ LET end == WindowEnd(text, chunk_size, start)
           chunk == WindowChunk(text, start, end)
           next == NextStart(end, chunk_overlap)
       IN  /\ chunks' = IF chunk # <<>> /\ Len(chunks) < IterCap
                        THEN Append(chunks, chunk)
                        ELSE chunks
           /\ start' = next
           /\ pc' = IF next >= Len(text) THEN "emit" ELSE "while"
    /\ iters' = IF iters < IterCap THEN iters + 1 ELSE iters
    /\ UNCHANGED <<ctor_args, documents, chunk_size, chunk_overlap, doc_idx,
                   text, split_returns, chunked_docs>>
    /\ UNCHANGED non_chunker_vars

\* the chunk numbered from 1 instead of 0
ChunkedDocOneBased(chunk, metadata, idx, total) ==
    [page_content |-> chunk, source |-> metadata.source, page |-> metadata.page,
     chunk |-> idx + 1, total_chunks |-> total]

\* lines 92-100: the chunked document built for chunk number idx of total
ChunkedDoc(chunk, metadata, idx, total) ==
    [page_content |-> chunk, source |-> metadata.source, page |-> metadata.page,
     chunk |-> idx, total_chunks |-> total]

\* the chunks of one document put in front of the earlier documents' chunks
AppendChunksInFront(out, metadata, cs) ==
    [i \in 1..Len(cs) |-> ChunkedDoc(cs[i], metadata, i - 1, Len(cs))] \o out

\* lines 92-101: the chunks of one document are appended in order
AppendChunks(out, metadata, cs) ==
    out \o [i \in 1..Len(cs) |-> ChunkedDoc(cs[i], metadata, i - 1, Len(cs))]

\* split_text returned: lines 89-101
Emit ==
    /\ pc = "emit"
    /\ split_returns' = Append(split_returns, chunks)
    /\ chunked_docs' =
           AppendChunks(chunked_docs, documents[doc_idx + 1].metadata, chunks)
    /\ doc_idx' = doc_idx + 1
    /\ pc' = "for_doc"
    /\ UNCHANGED <<ctor_args, documents, chunk_size, chunk_overlap, text, start,
                   chunks, iters>>
    /\ UNCHANGED non_chunker_vars

\* lines 103-104
Return ==
    /\ pc = "for_doc"
    /\ doc_idx = Len(documents)
    /\ pc' = "done"
    /\ UNCHANGED <<ctor_args, documents, chunk_size, chunk_overlap, doc_idx, text,
                   start, chunks, iters, split_returns, chunked_docs>>
    /\ UNCHANGED non_chunker_vars

Next ==
    \/ Construct
    \/ ChunkDocumentsCall
    \/ SplitEnter
    \/ WhileTest
    \/ LoopBody
    \/ Emit
    \/ Return

Spec == Init /\ [][Next]_vars

\* the configurations used when several documents are chunked
DocConfigs == {<<1, 0>>, <<2, 1>>}

\* every list of up to MaxDocs documents, the pages of one file in order, each
\* of a text up to DocLen
InitDocs ==
    /\ ctor_args \in DocConfigs
    /\ \E n \in 0..MaxDocs :
         \E ts \in [1..n -> TextsOver(DocChars, DocLen)] :
            documents = [k \in 1..n |-> Document(ts[k], "a.pdf", k - 1)]
    /\ InitChunker
    /\ InitRetriever
    /\ InitRag
    /\ InitMemory
    /\ InitApi
    /\ InitPipeline
    /\ InitEmbedder

SpecDocs == InitDocs /\ [][Next]_vars

\* one document of every text up to MaxLen, the configurations that are valid
InitValid ==
    /\ ctor_args \in {c \in Configs : c[1] > 0 /\ 0 <= c[2] /\ c[2] < c[1]}
    /\ \E t \in TextsOver(SnapChars, MaxLen) : documents = <<Document(t, "a.pdf", 0)>>
    /\ InitChunker
    /\ InitRetriever
    /\ InitRag
    /\ InitMemory
    /\ InitApi
    /\ InitPipeline
    /\ InitEmbedder

\* the interpreter runs the next statement whenever there is one
FairSpec == InitValid /\ [][Next]_vars /\ WF_vars(Next)

\* the configuration the chunker is documented to need
ValidConfig == chunk_size > 0 /\ 0 <= chunk_overlap /\ chunk_overlap < chunk_size

\* split_text has returned to chunk_documents
SplitReturned == pc = "emit"

CeilDiv(a, b) == (a + b - 1) \div b

(***************************************************************************)
(* C1: with chunk_size > 0 and 0 <= chunk_overlap < chunk_size, a call of  *)
(* split_text that has entered the while loop leaves it: the loop never    *)
(* runs forever.                                                           *)
(***************************************************************************)
C1_SplitTerminates == (pc \in {"while", "body"} /\ ValidConfig) ~> SplitReturned

(***************************************************************************)
(* C2: with a valid configuration, split_text never executes more than     *)
(* ceil(len(text) / (chunk_size - chunk_overlap)) iterations of its loop.  *)
(***************************************************************************)
C2_IterationBound ==
    (pc \in {"while", "body", "emit"} /\ ValidConfig)
        => iters <= CeilDiv(Len(text), chunk_size - chunk_overlap)

(***************************************************************************)
(* C3: a chunker object exists only with chunk_size > 0 and                *)
(* 0 <= chunk_overlap < chunk_size: construction with any other            *)
(* configuration fails, so no later step runs with one.                    *)
(***************************************************************************)
C3_ConstructionValidates == pc # "new" => ValidConfig

(***************************************************************************)
(* C4: split_text on the empty text returns the empty sequence, with no    *)
(* empty-string chunk in it.                                               *)
(***************************************************************************)
C4_EmptyTextNoChunk ==
    (SplitReturned /\ ValidConfig /\ text = <<>>) => chunks = <<>>

(***************************************************************************)
(* C5: when len(text) <= chunk_size, split_text returns exactly one        *)
(* element, the text itself, untrimmed.                                    *)
(***************************************************************************)
C5_ShortTextWhole ==
    (SplitReturned /\ Len(text) <= chunk_size) => chunks = <<text>>

\* a short text with whitespace at both ends has been returned
C5_Witness ==
    /\ SplitReturned
    /\ Len(text) <= chunk_size
    /\ Len(text) >= 2
    /\ IsSpace(text[1])
    /\ IsSpace(text[Len(text)])
    /\ chunks = <<text>>

\* the characters of s that are not whitespace, in order
NonSpace(s) == SelectSeq(s, LAMBDA c : ~IsSpace(c))

\* s without its first n characters
DropPrefix(s, n) == IF n >= Len(s) THEN <<>> ELSE SubSeq(s, n + 1, Len(s))

RECURSIVE ConcatAll(_)
ConcatAll(ss) == IF ss = <<>> THEN <<>> ELSE Head(ss) \o ConcatAll(Tail(ss))

\* the first chunk followed by every later chunk without its declared overlap
Rebuild(cs, overlap) ==
    ConcatAll([i \in 1..Len(cs) |->
                 IF i = 1 THEN cs[i] ELSE DropPrefix(cs[i], overlap)])

(***************************************************************************)
(* C6: for a text longer than chunk_size, the first chunk followed by the  *)
(* later chunks without their leading chunk_overlap characters is the      *)
(* text again, whitespace aside: no other character is lost or repeated.   *)
(***************************************************************************)
C6_CoverageRoundTrip ==
    (SplitReturned /\ ValidConfig /\ Len(text) > chunk_size)
        => NonSpace(Rebuild(chunks, chunk_overlap)) = NonSpace(text)

\* the positions of chunked_docs whose chunks come from the same document as
\* the chunk at position p (a document is identified by its source and page)
Siblings(p) ==
    {q \in 1..Len(chunked_docs) :
        /\ chunked_docs[q].source = chunked_docs[p].source
        /\ chunked_docs[q].page = chunked_docs[p].page}

(***************************************************************************)
(* C7: in the output of chunk_documents every chunk's index lies in        *)
(* [0, total_chunks), total_chunks is the number of chunks emitted for its *)
(* parent document, and the indices of one document's chunks are exactly   *)
(* 0 .. total_chunks - 1, each once.                                       *)
(***************************************************************************)
C7_ChunkIndexConsistent ==
    pc \in {"for_doc", "done"} =>
        \A p \in 1..Len(chunked_docs) :
            /\ chunked_docs[p].chunk \in 0..(chunked_docs[p].total_chunks - 1)
            /\ chunked_docs[p].total_chunks = Cardinality(Siblings(p))
            /\ {chunked_docs[q].chunk : q \in Siblings(p)}
                   = 0..(chunked_docs[p].total_chunks - 1)

\* chunk_documents returned the chunks of two documents of two chunks each
C7_Witness ==
    /\ pc = "done"
    /\ Len(documents) = 2
    /\ Len(chunked_docs) = 4
    /\ \A p \in 1..4 : Cardinality(Siblings(p)) = 2

\* what one chunked document says of its content and its parent
ContentAndParent(c) ==
    [page_content |-> c.page_content, source |-> c.source, page |-> c.page]

\* the chunks split_text returned for document k, each with that document's
\* source and page
ChunksOfDocument(k) ==
    [i \in 1..Len(split_returns[k]) |->
        [page_content |-> split_returns[k][i],
         source |-> documents[k].metadata.source,
         page |-> documents[k].metadata.page]]

(***************************************************************************)
(* C8: the output of chunk_documents is, document after document in input  *)
(* order, that document's split_text chunks in split order, each with its  *)
(* parent's source and page; documents are never interleaved.              *)
(***************************************************************************)
C8_OutputOrder ==
    pc \in {"for_doc", "done"} =>
        [p \in 1..Len(chunked_docs) |-> ContentAndParent(chunked_docs[p])]
            = ConcatAll([k \in 1..Len(split_returns) |-> ChunksOfDocument(k)])

\* chunk_documents returned the chunks of two documents, each split into two
\* different chunks
C8_Witness ==
    /\ pc = "done"
    /\ Len(documents) = 2
    /\ Len(split_returns) = 2
    /\ \A k \in 1..2 :
          Len(split_returns[k]) = 2 /\ split_returns[k][1] # split_returns[k][2]

(***************************************************************************)
(* C9: every chunk emitted by chunk_documents is non-empty after trimming  *)
(* whitespace; an empty or all-whitespace document contributes no chunk.   *)
(***************************************************************************)
C9_NoBlankChunk ==
    \A p \in 1..Len(chunked_docs) : Strip(chunked_docs[p].page_content) # <<>>

\* a call of split_text that returns has not been cut by IterCap
IterCapNotReached == pc \in {"emit", "for_doc", "done"} => iters < IterCap

(***************************************************************************)
(* Retriever of 01_lc_rag_poc/src/retriever.py.  A score is a whole number *)
(* of hundredths; a document is named by a number.                         *)
(***************************************************************************)
\* settings.top_k_results
TopKResults == 4

DocIds == 1..MaxResults
Scores == 0..MaxScore

\* a list the similarity search can return: no document twice, the scores
\* in rank order (ascending for a distance, descending for a similarity)
IsRanked(rs) ==
    /\ \A i, j \in 1..Len(rs) : i # j => rs[i].doc # rs[j].doc
    /\ \/ \A i, j \in 1..Len(rs) : i < j => rs[i].score <= rs[j].score
       \/ \A i, j \in 1..Len(rs) : i < j => rs[i].score >= rs[j].score

\* the lists of at most k results
SearchResults(k) ==
    UNION {{rs \in [1..n -> [doc : DocIds, score : Scores]] : IsRanked(rs)} :
             n \in 0..Min2(k, MaxResults)}

\* line 71, 91, 118: k or settings.top_k_results
KOrDefault(k) == IF k = 0 THEN TopKResults ELSE k

\* a score strictly above the threshold
PassesThresholdStrict(score, threshold) == score > threshold

\* line 128
PassesThreshold(score, threshold) == score >= threshold

\* lines 126-129: the list comprehension
RECURSIVE FilterByThreshold(_, _)
FilterByThreshold(rs, threshold) ==
    IF rs = <<>>
    THEN <<>>
    ELSE (IF PassesThreshold(Head(rs).score, threshold)
          THEN <<Head(rs).doc>>
          ELSE <<>>) \o FilterByThreshold(Tail(rs), threshold)

\* retrieve_with_threshold(query, k, score_threshold): k = 0 stands for None
RetrieveWithThreshold ==
    /\ r_pc = "idle"
    /\ \E k \in 0..MaxResults, t \in Scores :
         /\ k_used' = KOrDefault(k)
         /\ score_threshold' = t
         /\ \E rs \in SearchResults(KOrDefault(k)) :
              /\ results_with_scores' = rs
              /\ filtered_results' = FilterByThreshold(rs, t)
    /\ r_pc' = "returned"
    /\ UNCHANGED non_retriever_vars

InitRetrieverSpec ==
    /\ ctor_args = <<1, 0>>
    /\ documents = <<>>
    /\ InitChunker
    /\ InitRetriever
    /\ InitRag
    /\ InitMemory
    /\ InitApi
    /\ InitPipeline
    /\ InitEmbedder

NextRetriever == RetrieveWithThreshold

SpecRetriever == InitRetrieverSpec /\ [][NextRetriever]_vars

\* the positions of results_with_scores whose score reaches the threshold
Qualifying ==
    {i \in 1..Len(results_with_scores) :
        results_with_scores[i].score >= score_threshold}

\* the j-th smallest element of a set of numbers
NthOf(S, j) == CHOOSE i \in S : Cardinality({x \in S : x <= i}) = j

(***************************************************************************)
(* C10: retrieve_with_threshold returns exactly the documents whose score  *)
(* is >= the threshold, in the order the search ranked them: a             *)
(* subsequence of the unfiltered result, empty when none qualifies.        *)
(***************************************************************************)
C10_ThresholdFilter ==
    r_pc = "returned" =>
        /\ Len(filtered_results) = Cardinality(Qualifying)
        /\ \A j \in 1..Len(filtered_results) :
              filtered_results[j] = results_with_scores[NthOf(Qualifying, j)].doc

\* a result on the threshold is kept between one dropped and one kept
C10_Witness ==
    /\ r_pc = "returned"
    /\ Len(results_with_scores) = 3
    /\ results_with_scores[1].score < score_threshold
    /\ results_with_scores[2].score = score_threshold
    /\ results_with_scores[3].score > score_threshold
    /\ filtered_results = <<results_with_scores[2].doc, results_with_scores[3].doc>>

\* the scores are distances: the search ranked the nearest document first
IsDistanceRanked(rs) ==
    \A i, j \in 1..Len(rs) : i < j => rs[i].score <= rs[j].score

\* the positions of results_with_scores whose score is at most the threshold
WithinDistance ==
    {i \in 1..Len(results_with_scores) :
        results_with_scores[i].score <= score_threshold}

(***************************************************************************)
(* C11: when the scores are distances (lower is better, as the FAISS       *)
(* scores the retriever receives), retrieve_with_threshold keeps exactly   *)
(* the documents with score <= threshold, in input order.                  *)
(***************************************************************************)
C11_DistanceFilter ==
    (r_pc = "returned" /\ IsDistanceRanked(results_with_scores)) =>
        /\ Len(filtered_results) = Cardinality(WithinDistance)
        /\ \A j \in 1..Len(filtered_results) :
              filtered_results[j]
                  = results_with_scores[NthOf(WithinDistance, j)].doc

(***************************************************************************)
(* The two RAG programs: 01_lc_rag_poc (Retriever, RAGChain) and           *)
(* 01_az_rag_poc (HybridRetriever, RAGChain).  A string the programs build *)
(* is a sequence of string pieces whose concatenation is the string: the   *)
(* literal parts of the f-strings, the rendered fields, and the characters *)
(* of a document's content one by one.                                     *)
(***************************************************************************)
MaxMatches == 2

Variants == {"lc", "az"}

\* a metadata key, or the score, that the document does not carry
NoKey == "<absent>"
NoPage == 0 - 1
NoScore == 0 - 1

Sources == {"a.pdf", "b.pdf", NoKey}
Pages == {12, NoPage}
Contents == {<<"a">>, <<" ", "a", NL>>}
\* scores in ten-thousandths, none of them half-way between two thousandths
RagScores == {49, 8766, NoScore}

\* a LangChain Document has no score; an Azure document is a dictionary
Matches(v) ==
    [content : Contents, source : Sources, page : Pages,
     score : IF v = "lc" THEN {NoScore} ELSE RagScores]

MatchLists(v) == UNION {[1..n -> Matches(v)] : n \in 0..MaxMatches}

Digit(d) == <<"0", "1", "2", "3", "4", "5", "6", "7", "8", "9">>[d + 1]

\* str(n) of a natural number
RECURSIVE IntStr(_)
IntStr(n) == IF n < 10 THEN Digit(n) ELSE IntStr(n \div 10) \o Digit(n % 10)

\* f"{score:.3f}" of a score given in ten-thousandths
Format3(u) ==
    LET m == (u + 5) \div 10
    IN  IntStr(m \div 1000) \o "." \o Digit((m \div 100) % 10)
            \o Digit((m \div 10) % 10) \o Digit(m % 10)

\* metadata.get('source_file', default), rendered
SourceOr(m, default) == IF m.source = NoKey THEN default ELSE m.source

\* metadata.get('page', default), rendered
PageOr(m, default) == IF m.page = NoPage THEN default ELSE IntStr(m.page)

\* doc.get("score", 0.0)
ScoreOr(m) == IF m.score = NoScore THEN 0 ELSE m.score

RECURSIVE Join(_, _)
Join(sep, parts) ==
    IF parts = <<>> THEN <<>>
    ELSE IF Len(parts) = 1 THEN parts[1]
    ELSE parts[1] \o sep \o Join(sep, Tail(parts))

Sentinel == <<"No relevant documents found.">>

LcOpen == "[Source "
LcSeparator == <<"\n\n---\n\n">>

LcPart(i, doc) ==
    <<LcOpen, IntStr(i), ": ", SourceOr(doc, "unknown"), ", page ",
      PageOr(doc, "N/A"), "]", NL>> \o Strip(doc.content)

LcParts(docs) == [i \in 1..Len(docs) |-> LcPart(i, docs[i])]

FormatRetrievedContextNoSentinel(docs) ==
    Join(LcSeparator, LcParts(docs))

FormatRetrievedContext(docs) ==
    IF docs = <<>> THEN Sentinel
    ELSE Join(LcSeparator, LcParts(docs))

AzOpen == "[Document "
AzSeparator == <<NL>>

AzPartTrimmed(idx, doc) ==
    <<AzOpen, IntStr(idx), "] (Source: ", SourceOr(doc, "unknown"),
      ", Page: ", PageOr(doc, "?"), ", Score: ", Format3(ScoreOr(doc)),
      ")", NL>> \o Strip(doc.content) \o <<NL>>

AzPart(idx, doc) ==
    <<AzOpen, IntStr(idx), "] (Source: ", SourceOr(doc, "unknown"),
      ", Page: ", PageOr(doc, "?"), ", Score: ", Format3(ScoreOr(doc)),
      ")", NL>> \o doc.content \o <<NL>>

AzParts(docs) == [i \in 1..Len(docs) |-> AzPart(i, docs[i])]

FormatContext(docs) ==
    IF docs = <<>> THEN Sentinel
    ELSE Join(AzSeparator, AzParts(docs))

FormatFor(v, docs) ==
    IF v = "lc" THEN FormatRetrievedContext(docs)
    ELSE FormatContext(docs)

\* HybridRetriever.retrieve: one search result as a document
AzDocument(result) ==
    [content |-> result.content,
     source  |-> IF result.source = NoKey THEN "" ELSE result.source,
     page    |-> IF result.page = NoPage THEN 0 ELSE result.page,
     score   |-> IF result.score = NoScore THEN 0 ELSE result.score]

Retrieved(v, results) ==
    IF v = "lc" THEN results
    ELSE [i \in 1..Len(results) |-> AzDocument(results[i])]

LcPreviewLen == 200
AzPreviewLen == 150

\* the page of a source entry is written as its decimal string, so that a
\* page number and the default 'N/A' are values of one kind
LcSource(doc) ==
    [file    |-> SourceOr(doc, "unknown"),
     page    |-> PageOr(doc, "N/A"),
     content |-> Slice(doc.content, 0, LcPreviewLen) \o <<"...">>]

AzSource(doc) ==
    [file    |-> SourceOr(doc, "None"),
     page    |-> PageOr(doc, "None"),
     score   |-> doc.score,
     preview |-> Slice(doc.content, 0, AzPreviewLen) \o <<"...">>]

SourcesReversed(v, docs) ==
    [i \in 1..Len(docs) |->
        IF v = "lc" THEN LcSource(docs[Len(docs) + 1 - i])
        ELSE AzSource(docs[Len(docs) + 1 - i])]

SourcesOf(v, docs) ==
    [i \in 1..Len(docs) |->
        IF v = "lc" THEN LcSource(docs[i]) ELSE AzSource(docs[i])]

\* each program answering with the other one's sentence
NoInfoAnswerSwapped(v) ==
    IF v = "az"
    THEN "I don't have any relevant information to answer that question."
    ELSE "I don't have any relevant documents to answer this question."

NoInfoAnswer(v) ==
    IF v = "lc"
    THEN "I don't have any relevant information to answer that question."
    ELSE "I don't have any relevant documents to answer this question."

\* the search the retriever runs returns at most k results
RagSearchResults(v, k) ==
    {rs \in MatchLists(v) : Len(rs) <= k}

\* Retriever.format_retrieved_context / HybridRetriever.format_context called
\* on a list of documents
FormatCall ==
    /\ q_pc = "idle"
    /\ \E docs \in MatchLists(variant) :
         /\ matches' = docs
         /\ context' = FormatFor(variant, docs)
    /\ q_pc' = "formatted_only"
    /\ UNCHANGED <<variant, return_sources, q_result, llm_calls,
                   search_calls, search_failed>>
    /\ UNCHANGED non_rag_vars

\* a query that goes on with whatever was retrieved
NeverEmpty(docs) == FALSE

\* if not documents
NoDocuments(docs) == docs = <<>>

\* RAGChain.query, step 1: retriever.retrieve and the test of its value
QueryRetrieve ==
    /\ q_pc = "idle"
    /\ search_calls' = search_calls + 1
    /\ \E k \in 0..MaxMatches, rsrc \in BOOLEAN :
         /\ variant = "az" => rsrc
         /\ return_sources' = rsrc
         /\ \/ /\ search_failed' = TRUE
               /\ q_pc' = "raised"
               /\ UNCHANGED <<matches, q_result>>
            \/ \E rs \in RagSearchResults(variant, KOrDefault(k)) :
                 /\ search_failed' = FALSE
                 /\ matches' = Retrieved(variant, rs)
                 /\ IF NoDocuments(Retrieved(variant, rs))
                    THEN /\ q_result' = [answer |-> NoInfoAnswer(variant),
                                         sources |-> <<>>]
                         /\ q_pc' = "returned"
                    ELSE /\ q_pc' = "retrieved"
                         /\ UNCHANGED q_result
    /\ UNCHANGED <<variant, context, llm_calls>>
    /\ UNCHANGED non_rag_vars

\* RAGChain.query, step 2: the context
QueryFormat ==
    /\ q_pc = "retrieved"
    /\ context' = FormatFor(variant, matches)
    /\ q_pc' = "formatted"
    /\ UNCHANGED <<variant, return_sources, matches, q_result, llm_calls,
                   search_calls, search_failed>>
    /\ UNCHANGED non_rag_vars

\* RAGChain.query, steps 3 and 4: the chat-model call and the response
QueryGenerate ==
    /\ q_pc = "formatted"
    /\ llm_calls' = llm_calls + 1
    /\ \E ok \in BOOLEAN :
         IF variant = "lc"
         THEN IF ok
              THEN /\ q_result' =
                        [answer |-> "ans",
                         sources |-> IF return_sources
                                     THEN SourcesOf(variant, matches)
                                     ELSE <<>>]
                   /\ q_pc' = "returned"
              ELSE /\ q_pc' = "raised"
                   /\ UNCHANGED q_result
         ELSE /\ q_result' =
                   [answer |-> IF ok THEN "ans"
                               ELSE "Error generating answer",
                    sources |-> SourcesOf(variant, matches)]
              /\ q_pc' = "returned"
    /\ UNCHANGED <<variant, return_sources, matches, context, search_calls,
                   search_failed>>
    /\ UNCHANGED non_rag_vars

InitRagSpec ==
    /\ ctor_args = <<1, 0>>
    /\ documents = <<>>
    /\ InitChunker
    /\ InitRetriever
    /\ \E v \in Variants : InitRagFor(v)
    /\ InitMemory
    /\ InitApi
    /\ InitPipeline
    /\ InitEmbedder

NextRag == FormatCall \/ QueryRetrieve \/ QueryFormat \/ QueryGenerate

SpecRag == InitRagSpec /\ [][NextRag]_vars

\* a format call has returned its context
Formatted == q_pc \in {"formatted_only", "formatted", "returned"} /\ context # <<>>

(***************************************************************************)
(* C12: formatting an empty list of documents returns the sentinel         *)
(* "No relevant documents found." in both retriever variants, never the    *)
(* empty string; formatting a non-empty list never returns the sentinel.   *)
(* (FormatCall has no raising outcome: the call always returns.)           *)
(***************************************************************************)
C12_EmptyListSentinel ==
    q_pc = "formatted_only" =>
        /\ context # <<>>
        /\ matches = <<>> <=> context = Sentinel

C12_Witness ==
    /\ q_pc = "formatted_only"
    /\ matches = <<>>
    /\ context = Sentinel

Opener(v) == IF v = "lc" THEN LcOpen ELSE AzOpen

\* the pieces of the context that open a block
BlockStarts == {p \in 1..Len(context) : context[p] = Opener(variant)}

BlockStart(j) == NthOf(BlockStarts, j)

DefaultPage(v) == IF v = "lc" THEN "N/A" ELSE "?"

\* block j carries the label j and the source file and page of matches[j]
BlockCites(j) ==
    LET p == BlockStart(j)
    IN  /\ context[p + 1] = IntStr(j)
        /\ context[p + 3] = SourceOr(matches[j], "unknown")
        /\ context[p + 5] = PageOr(matches[j], DefaultPage(variant))

(***************************************************************************)
(* C13: the formatted context has exactly one block per match, the block   *)
(* labelled i is built from matches[i-1] (source file and page), labels    *)
(* run 1..n in list order, and the sources list RAGChain.query returns has *)
(* the same order: sources[i-1] has the file and page of the block         *)
(* labelled i.                                                             *)
(***************************************************************************)
C13_CitationMapping ==
    (Formatted /\ matches # <<>>) =>
        /\ Cardinality(BlockStarts) = Len(matches)
        /\ \A j \in 1..Len(matches) : BlockCites(j)
        /\ (q_pc = "returned" /\ return_sources) =>
              /\ Len(q_result.sources) = Len(matches)
              /\ \A j \in 1..Len(matches) :
                    /\ q_result.sources[j].file = context[BlockStart(j) + 3]
                    /\ q_result.sources[j].page = context[BlockStart(j) + 5]

C13_Witness ==
    /\ q_pc = "returned"
    /\ variant = "lc"
    /\ return_sources
    /\ Len(matches) = 2
    /\ matches[1].source = "b.pdf"
    /\ matches[2].source = "a.pdf"
    /\ Len(q_result.sources) = 2
    /\ q_result.sources[1].file = "b.pdf"

\* the pieces of a header line, the newline that ends it included
HeaderLen(v) == IF v = "lc" THEN 8 ELSE 10

Separator(v) == IF v = "lc" THEN LcSeparator ELSE AzSeparator

HeaderLine(j) ==
    SubSeq(context, BlockStart(j), BlockStart(j) + HeaderLen(variant) - 1)

\* what follows the header line of block j, up to the separator or the end
BlockBody(j) ==
    SubSeq(context, BlockStart(j) + HeaderLen(variant),
           IF j = Len(matches) THEN Len(context)
           ELSE BlockStart(j + 1) - 1 - Len(Separator(variant)))

Contains(line, piece) == \E q \in 1..Len(line) : line[q] = piece

C15_SearchFailureIsNoMatch ==
    search_failed =>
        /\ q_pc # "raised"
        /\ matches = <<>>
        /\ search_calls = 1

\* one chunker is handed a text, then another text, then the first text again
InitRepeat ==
    /\ ctor_args \in DocConfigs
    /\ \E t, u \in TextsOver(DocChars, DocLen) :
         documents = <<Document(t, "a.pdf", 0), Document(u, "a.pdf", 1),
                       Document(t, "a.pdf", 2)>>
    /\ InitChunker
    /\ InitRetriever
    /\ InitRag
    /\ InitMemory
    /\ InitApi
    /\ InitPipeline
    /\ InitEmbedder

SpecRepeat == InitRepeat /\ [][Next]_vars

(***************************************************************************)
(* C16: split_text is deterministic and stateless: two calls on the same   *)
(* chunker with the same text return the same chunk sequence, whatever     *)
(* call happened in between, and the calls leave chunk_size and            *)
(* chunk_overlap, the only fields of the chunker, as constructed.          *)
(***************************************************************************)
C16_SplitDeterministic ==
    /\ \A i, j \in 1..Len(split_returns) :
          documents[i].page_content = documents[j].page_content
              => split_returns[i] = split_returns[j]
    /\ pc # "new" => chunk_size = ctor_args[1] /\ chunk_overlap = ctor_args[2]

C16_Witness ==
    /\ pc = "done"
    /\ Len(split_returns) = 3
    /\ documents[1].page_content = documents[3].page_content
    /\ documents[1].page_content # documents[2].page_content
    /\ Len(split_returns[1]) = 2
    /\ Len(split_returns[2]) = 1
    /\ split_returns[3] = split_returns[1]

(***************************************************************************)
(* 02.az_ai_agent_poc: ConversationMemory over a Cosmos DB container.      *)
(* The container is the set of its items.  The two datetime.utcnow() calls *)
(* of one save_message are taken to read the same value, the clock; a save *)
(* reads the value of the save before it or a later one.                   *)
(***************************************************************************)
MaxClock == 2

Roles == {"user", "assistant"}

\* save_message: message
Item(sid, role, content, now) ==
    [id |-> <<sid, now>>, session_id |-> sid, role |-> role,
     content |-> content, timestamp |-> now]

\* container.upsert_item
UpsertItem(st, item) == {x \in st : x.id # item.id} \cup {item}

SessionItems(st, sid) == {x \in st : x.session_id = sid}

\* container.query_items: the items of the session, ORDER BY timestamp ASC
QueryItems(st, sid) ==
    LET S == SessionItems(st, sid)
    IN  [k \in 1..Cardinality(S) |->
            CHOOSE x \in S :
                Cardinality({y \in S : y.timestamp <= x.timestamp}) = k]

FirstMessages(messages, limit) ==
    IF limit # 0 THEN Slice(messages, 0, limit) ELSE messages

\* lines 127-128; the limit 0 stands for None
LastMessages(messages, limit) ==
    IF limit # 0 THEN Slice(messages, 0 - limit, Len(messages)) ELSE messages

\* ok: the query did not raise
GetConversationHistory(st, sid, limit, ok) ==
    IF ok THEN LastMessages(QueryItems(st, sid), limit) ELSE <<>>

\* ok: upsert_item did not raise
SaveMessage(st, sid, role, content, now, ok) ==
    IF ok THEN UpsertItem(st, Item(sid, role, content, now)) ELSE st

\* the delete_item calls that succeeded; fail_at = 0: none raised
DeletesDone(messages, fail_at) ==
    IF fail_at = 0 THEN Len(messages) ELSE fail_at - 1

\* clear_session: the container afterwards and the value returned
ClearSession(st, sid, ok, fail_at) ==
    LET messages == GetConversationHistory(st, sid, 0, ok)
        done     == DeletesDone(messages, fail_at)
    IN  [store    |-> st \ {messages[i] : i \in 1..done},
         returned |-> IF fail_at = 0 THEN done ELSE 0]

\* the delete_item call that may raise, for a session of n messages
FailPoints(st, sid, ok) == 0..Len(GetConversationHistory(st, sid, 0, ok))

\* the memory is exercised with messages of one role; the agent below saves
\* both
MemRoles == {"user"}

MemSave ==
    /\ \E sid \in SessionIds, role \in MemRoles, adv \in {0, 1}, ok \in BOOLEAN :
         /\ clock + adv <= MaxClock
         /\ clock' = clock + adv
         /\ store' = SaveMessage(store, sid, role, "hi", clock + adv, ok)
         /\ mem_call' = [op |-> "save", session_id |-> sid, limit |-> 0,
                         ok |-> ok, messages |-> <<>>, returned |-> 0,
                         removed |-> 0]
    /\ UNCHANGED <<api_vars, non_agent_vars>>

MemGetHistory ==
    /\ \E sid \in SessionIds, limit \in 0..(MaxClock + 1), ok \in BOOLEAN :
         mem_call' = [op |-> "history", session_id |-> sid, limit |-> limit,
                      ok |-> ok,
                      messages |-> GetConversationHistory(store, sid, limit, ok),
                      returned |-> 0, removed |-> 0]
    /\ UNCHANGED <<store, clock, api_vars, non_agent_vars>>

MemClear ==
    /\ \E sid \in SessionIds, ok \in BOOLEAN :
         \E fail_at \in FailPoints(store, sid, ok) :
            LET out == ClearSession(store, sid, ok, fail_at)
            IN  /\ store' = out.store
                /\ mem_call' = [op |-> "clear", session_id |-> sid,
                                limit |-> 0, ok |-> ok, messages |-> <<>>,
                                returned |-> out.returned,
                                removed |-> Cardinality(store \ out.store)]
    /\ UNCHANGED <<clock, api_vars, non_agent_vars>>

InitMemorySpec ==
    /\ ctor_args = <<1, 0>>
    /\ documents = <<>>
    /\ InitChunker
    /\ InitRetriever
    /\ InitRag
    /\ InitMemory
    /\ InitApi
    /\ InitPipeline
    /\ InitEmbedder

NextMemory == MemSave \/ MemGetHistory \/ MemClear

SpecMemory == InitMemorySpec /\ [][NextMemory]_vars

\* what the latest get_conversation_history call returned
Returned == {mem_call.messages[i] : i \in 1..Len(mem_call.messages)}

\* the messages of the session the call asked for
Stored == SessionItems(store, mem_call.session_id)

\* the value returned is of the session, ascending, and the most recent ones
HistoryAnswer ==
    /\ Returned \subseteq Stored
    /\ \A i, j \in 1..Len(mem_call.messages) :
          i < j => mem_call.messages[i].timestamp
                       < mem_call.messages[j].timestamp
    /\ \A x \in Returned, y \in Stored \ Returned : y.timestamp < x.timestamp
    /\ Len(mem_call.messages) =
          IF mem_call.limit = 0 THEN Cardinality(Stored)
          ELSE Min2(mem_call.limit, Cardinality(Stored))

(***************************************************************************)
(* C19 as stated: every get_conversation_history call returns only         *)
(* messages of the session, in ascending timestamp order; with a positive  *)
(* limit n the min(n, total) most recent ones, with no limit all of them.  *)
(***************************************************************************)
C19_HistoryOfSession == mem_call.op = "history" => HistoryAnswer

(***************************************************************************)
(* C19 amended: the same, for a call whose container query succeeds; a     *)
(* call whose query raises returns the empty list.                         *)
(***************************************************************************)
C19_HistoryOfSessionOrEmpty ==
    mem_call.op = "history" =>
        IF mem_call.ok THEN HistoryAnswer ELSE mem_call.messages = <<>>

C19_Witness ==
    /\ mem_call.op = "history"
    /\ mem_call.ok
    /\ mem_call.limit = 2
    /\ Cardinality(Stored) = 3
    /\ Cardinality(SessionItems(store, "s2")) = 1
    /\ Len(mem_call.messages) = 2
    /\ mem_call.messages[1].timestamp = 1
    /\ mem_call.messages[2].timestamp = 2

(***************************************************************************)
(* C20: in every outcome, clear_session returns the number of items it     *)
(* removed from the container, also when a delete or the history query     *)
(* fails part-way.                                                         *)
(***************************************************************************)
C20_ClearCount ==
    mem_call.op = "clear" =>
        mem_call.returned = mem_call.removed

(***************************************************************************)
(* 02.az_ai_agent_poc: BaseAgent and the FastAPI application.  The         *)
(* handlers are coroutines on one event loop: a handler runs without       *)
(* interruption except at its await, and the only await is the chat-model  *)
(* call of BaseAgent.process_task, so process_task is two steps and every  *)
(* other handler is one.                                                   *)
(***************************************************************************)
MaxTasks == 1

\* as many agents are constructed as there are session ids
MaxAgents == Cardinality(SessionIds)

HistoryLoadLimit == 10

Tasks == {"hi"}

Answer == "ans"

ErrorMsg == "I encountered an error"

\* the response record of a handler; fields a handler does not set are those
\* of NoResponse
Reply(kind, sid, status) ==
    [NoResponse EXCEPT !.kind = kind, !.session_id = sid, !.status = status]

Registered == {sid \in SessionIds : active_agents[sid] # 0}

\* BaseAgent._load_conversation_history
LoadConversationHistory(st, sid, ok) ==
    LET history == GetConversationHistory(st, sid, HistoryLoadLimit, ok)
    IN  [k \in 1..Len(history) |-> <<history[k].role, history[k].content>>]

\* BaseAgent.__init__; appended and persisted record the messages the agent
\* adds to its chat history and saves in process_task
NewAgent(sid, st, ok) ==
    [session_id |-> sid, chat_history |-> LoadConversationHistory(st, sid, ok),
     appended |-> <<>>, persisted |-> <<>>]

AddAssistantMessageInFront(history, content) ==
    <<<<"assistant", content>>>> \o history

\* chat_history.add_assistant_message
AddAssistantMessage(history, content) ==
    Append(history, <<"assistant", content>>)

\* chat_history.add_user_message
AddUserMessage(history, content) == Append(history, <<"user", content>>)

RegistryKept(registry, sid) == registry

\* del active_agents[session_id]
Unregister(registry, sid) == [registry EXCEPT ![sid] = 0]

\* active_agents[session_id] = agent
Register(registry, sid, a) == [registry EXCEPT ![sid] = a]

\* POST /session/create
CreateSession ==
    /\ Len(agents) < MaxAgents
    /\ \E sid \in SessionIds \ issued, ctor_ok \in BOOLEAN :
         /\ issued' = issued \cup {sid}
         /\ IF ctor_ok
            THEN /\ agents' = Append(agents, NewAgent(sid, store, TRUE))
                 /\ active_agents' = Register(active_agents, sid, Len(agents) + 1)
                 /\ live' = live \cup {sid}
                 /\ response' = Reply("create", sid, 200)
            ELSE /\ response' = Reply("create", sid, 500)
                 /\ UNCHANGED <<agents, active_agents, live>>
    /\ UNCHANGED <<store, clock, mem_call, inflight, tasks_started>>
    /\ UNCHANGED non_agent_vars

\* POST /agent/task, up to the await of the chat model: the agent is looked
\* up or constructed, and BaseAgent.process_task saves the user message
TaskBegin ==
    /\ tasks_started < MaxTasks
    /\ \E named \in SessionIds \cup {""}, task \in Tasks :
         \E sid \in (IF named = "" THEN SessionIds \ issued ELSE {named}) :
          \E ctor_ok \in (IF active_agents[sid] # 0 THEN {TRUE} ELSE BOOLEAN) :
           \E hist_ok \in (IF active_agents[sid] # 0 \/ ~ctor_ok
                           THEN {TRUE} ELSE BOOLEAN),
              save_ok \in (IF ctor_ok THEN BOOLEAN ELSE {FALSE}) :
            \E adv \in (IF save_ok THEN {0, 1} ELSE {0}) :
            LET registered == active_agents[sid] # 0
                a       == IF registered THEN active_agents[sid]
                           ELSE Len(agents) + 1
                agents1 == IF registered THEN agents
                           ELSE Append(agents, NewAgent(sid, store, hist_ok))
            IN  /\ issued' = issued \cup {sid}
                /\ IF ~registered /\ ~ctor_ok
                   THEN /\ response' = Reply("task", sid, 500)
                        /\ UNCHANGED <<store, clock, active_agents, agents,
                                       inflight, tasks_started, live>>
                   ELSE /\ ~registered => Len(agents) < MaxAgents
                        /\ active_agents' = Register(active_agents, sid, a)
                        /\ live' = live \cup {sid}
                        /\ tasks_started' = tasks_started + 1
                        /\ IF save_ok
                           THEN /\ store' = SaveMessage(store, sid, "user", task,
                                                        clock + adv, TRUE)
                                /\ clock' = clock + adv
                                /\ agents' =
                                     [agents1 EXCEPT
                                         ![a].chat_history =
                                             AddUserMessage(@, task),
                                         ![a].appended =
                                             AddUserMessage(@, task),
                                         ![a].persisted =
                                             AddUserMessage(@, task)]
                                /\ inflight' = inflight \cup
                                     {[req |-> tasks_started + 1, agent |-> a,
                                       session_id |-> sid, task |-> task]}
                                /\ UNCHANGED response
                           ELSE /\ agents' = agents1
                                /\ response' =
                                     [Reply("task", sid, 500) EXCEPT !.agent = a]
                                /\ UNCHANGED <<store, clock, inflight>>
    /\ UNCHANGED mem_call
    /\ UNCHANGED non_agent_vars

\* POST /agent/task, from the return of the chat model: the reply or the
\* error message is saved and the response is sent
TaskEnd ==
    /\ \E r \in inflight, llm_ok \in BOOLEAN :
        \E reply_ok \in (IF llm_ok THEN BOOLEAN ELSE {FALSE}) :
         \E error_ok \in (IF reply_ok THEN {FALSE} ELSE BOOLEAN) :
          \E adv \in (IF reply_ok \/ error_ok THEN {0, 1} ELSE {0}) :
         LET sid   == agents[r.agent].session_id
             reply == llm_ok /\ reply_ok
             saved == reply \/ error_ok
             base  == [Reply("task", r.session_id, 200) EXCEPT
                          !.agent = r.agent, !.llm_ok = llm_ok,
                          !.reply_saved = reply]
         IN  /\ inflight' = inflight \ {r}
             /\ store' = IF saved
                         THEN SaveMessage(store, sid, "assistant",
                                          IF reply THEN Answer ELSE ErrorMsg,
                                          clock + adv, TRUE)
                         ELSE store
             /\ clock' = IF saved THEN clock + adv ELSE clock
             /\ agents' = IF reply
                          THEN [agents EXCEPT
                                   ![r.agent].chat_history =
                                       AddAssistantMessage(@, Answer),
                                   ![r.agent].appended =
                                       AddAssistantMessage(@, Answer),
                                   ![r.agent].persisted =
                                       AddAssistantMessage(@, Answer)]
                          ELSE IF error_ok
                          THEN [agents EXCEPT
                                   ![r.agent].persisted =
                                       AddAssistantMessage(@, ErrorMsg)]
                          ELSE agents
             /\ response' =
                  IF reply
                  THEN [base EXCEPT !.success = TRUE,
                                    !.result_session_id = sid]
                  ELSE IF error_ok THEN base
                  ELSE [base EXCEPT !.status = 500]
    /\ UNCHANGED <<mem_call, active_agents, tasks_started, live, issued>>
    /\ UNCHANGED non_agent_vars

\* DELETE /session/{session_id}
DeleteSession ==
    /\ \E sid \in SessionIds :
         /\ issued' = issued \cup {sid}
         /\ IF active_agents[sid] # 0
            THEN \E ok \in BOOLEAN :
                   \E fail_at \in FailPoints(store, sid, ok) :
                     /\ agents' = [agents EXCEPT
                                      ![active_agents[sid]].chat_history = <<>>]
                     /\ store' = ClearSession(store, sid, ok, fail_at).store
                     /\ active_agents' = Unregister(active_agents, sid)
                     /\ live' = live \ {sid}
                     /\ response' = Reply("delete", sid, 200)
            ELSE /\ response' = Reply("delete", sid, 404)
                 /\ UNCHANGED <<agents, store, active_agents, live>>
    /\ UNCHANGED <<clock, mem_call, inflight, tasks_started>>
    /\ UNCHANGED non_agent_vars

\* GET /session/{session_id}/history
GetSessionHistory ==
    /\ \E sid \in SessionIds :
         /\ issued' = issued \cup {sid}
         /\ response' = Reply("history", sid,
                              IF active_agents[sid] # 0 THEN 200 ELSE 404)
    /\ UNCHANGED <<store, clock, mem_call, active_agents, agents, inflight,
                   tasks_started, live>>
    /\ UNCHANGED non_agent_vars

\* GET /health
HealthCheck ==
    /\ response' = [Reply("health", "", 200) EXCEPT
                       !.active_sessions = Cardinality(Registered)]
    /\ UNCHANGED <<store, clock, mem_call, active_agents, agents, inflight,
                   tasks_started, live, issued>>
    /\ UNCHANGED non_agent_vars

InitApiSpec == InitMemorySpec

NextApi ==
    \/ CreateSession
    \/ TaskBegin
    \/ TaskEnd
    \/ DeleteSession
    \/ GetSessionHistory
    \/ HealthCheck

SpecApi == InitApiSpec /\ [][NextApi]_vars

HasItem(st, sid, role, content) ==
    \E x \in st : x.session_id = sid /\ x.role = role /\ x.content = content

Last(history) == history[Len(history)]

\* a step that starts the wait for the chat model has saved the user message
\* and appended it to the chat history
UserMessageFirst ==
    \A r \in inflight' \ inflight :
        LET sid == agents'[r.agent].session_id
        IN  /\ HasItem(store', sid, "user", r.task)
            /\ agents'[r.agent].chat_history # <<>>
            /\ Last(agents'[r.agent].chat_history) = <<"user", r.task>>

\* the step that ends the wait has saved the reply, appended it to the chat
\* history and returned success with the agent's session id
ReplyPersisted(r) ==
    LET sid == agents[r.agent].session_id
    IN  /\ HasItem(store', sid, "assistant", Answer)
        /\ agents'[r.agent].chat_history =
              Append(agents[r.agent].chat_history, <<"assistant", Answer>>)
        /\ response'.status = 200
        /\ response'.success
        /\ response'.result_session_id = sid

(***************************************************************************)
(* C17 as stated: when the chat-completion call succeeds, process_task has *)
(* persisted the user message before the model was called, persists the    *)
(* assistant reply after it, both under the agent's session id, appends    *)
(* both to the chat history and returns success=True with the session id.  *)
(***************************************************************************)
C17_TaskSuccessPath ==
    [][/\ UserMessageFirst
       /\ \A r \in inflight \ inflight' :
             response'.llm_ok => ReplyPersisted(r)]_vars

(***************************************************************************)
(* C17 amended: the same when the chat-completion call succeeds and the    *)
(* save of the reply succeeds; when the save of the reply raises, the      *)
(* reply is not appended to the chat history and process_task does not     *)
(* return success=True.                                                    *)
(***************************************************************************)
C17_TaskSuccessPathIfSaved ==
    [][/\ UserMessageFirst
       /\ \A r \in inflight \ inflight' :
             response'.llm_ok =>
                IF response'.reply_saved THEN ReplyPersisted(r)
                ELSE /\ ~response'.success
                     /\ agents'[r.agent].chat_history
                           = agents[r.agent].chat_history]_vars

C17_Witness ==
    /\ response.kind = "task"
    /\ response.llm_ok
    /\ response.success
    /\ response.result_session_id = "s1"
    /\ store = {Item("s1", "user", "hi", 0), Item("s1", "assistant", Answer, 1)}
    /\ agents[response.agent].chat_history
          = <<<<"user", "hi">>, <<"assistant", Answer>>>>

\* what one request may do to the registry
RegistryStep ==
    /\ \A r \in inflight' \ inflight :
          /\ r.agent = active_agents'[r.session_id]
          /\ active_agents[r.session_id] # 0 =>
                /\ r.agent = active_agents[r.session_id]
                /\ agents'[r.agent].session_id = agents[r.agent].session_id
                /\ Len(agents') = Len(agents)
    /\ ((DeleteSession \/ GetSessionHistory)
            /\ active_agents[response'.session_id] = 0) =>
          /\ response'.status = 404
          /\ UNCHANGED <<store, active_agents, agents, inflight, live>>
    /\ HealthCheck => response'.active_sessions = Cardinality(live)

(***************************************************************************)
(* C18: after any sequence of requests a session id is registered exactly  *)
(* when it was created (by create_session or by a task) and not deleted    *)
(* since; a task on a registered id reuses the existing agent; history and *)
(* delete on an unregistered id answer 404 and change nothing; /health     *)
(* reports the number of registered ids.                                   *)
(***************************************************************************)
C18_SessionRegistry == [](Registered = live) /\ [][RegistryStep]_vars

C18_Witness ==
    /\ response.kind = "health"
    /\ response.active_sessions = 1
    /\ live = {"s1"}
    /\ issued = {"s1"}
    /\ Len(agents) = 2
    /\ active_agents["s1"] = 2

(***************************************************************************)
(* split_text on valid configurations up to one size larger, over texts of *)
(* letters, periods and newlines.                                          *)
(***************************************************************************)
BoundaryChars == {"a", ".", NL}

SnapConfigs ==
    {c \in (1..(MaxSize + 1)) \X (0..MaxSize) : c[2] < c[1]}

InitSnap ==
    /\ ctor_args \in SnapConfigs
    /\ \E t \in TextsOver(BoundaryChars, MaxLen) :
         documents = <<Document(t, "a.pdf", 0)>>
    /\ InitChunker
    /\ InitRetriever
    /\ InitRag
    /\ InitMemory
    /\ InitApi
    /\ InitPipeline
    /\ InitEmbedder

SpecSnap == InitSnap /\ [][Next]_vars

\* every chunk of a list of chunks
ChunksOf(cs) == {cs[i] : i \in 1..Len(cs)}

(***************************************************************************)
(* C21: for every text and every configuration with                        *)
(* 0 <= chunk_overlap < chunk_size, no chunk split_text collects or        *)
(* returns is longer than chunk_size characters.                           *)
(***************************************************************************)
C21_ChunkLength ==
    (pc # "new" /\ ValidConfig) =>
        /\ \A c \in ChunksOf(chunks) : Len(c) <= chunk_size
        /\ \A k \in 1..Len(split_returns) :
              \A c \in ChunksOf(split_returns[k]) : Len(c) <= chunk_size

C21_Witness ==
    /\ pc = "done"
    /\ chunk_size = 3
    /\ chunk_overlap = 1
    /\ Len(documents[1].page_content) = 5
    /\ Len(split_returns) = 1
    /\ Len(split_returns[1]) = 2
    /\ Len(split_returns[1][1]) = 3

\* the window that LoopBody is about to cut is not the final one
NonFinalWindow == pc = "body" /\ start + chunk_size < Len(text)

\* the indices after start, inside the window, that hold a '.' or a newline
SnapPoints ==
    {k \in 0..(Len(text) - 1) :
        /\ start < k
        /\ k < start + chunk_size
        /\ text[k + 1] \in {".", NL}}

(***************************************************************************)
(* C22: a window that is not the final one ends immediately after the last *)
(* '.' or newline at an index strictly greater than start inside           *)
(* [start, start + chunk_size); when there is none it is a hard cut of     *)
(* exactly chunk_size characters.  (The end of the window is the next      *)
(* start plus the overlap.)                                                *)
(***************************************************************************)
C22_BoundarySnapping ==
    [][(NonFinalWindow /\ ValidConfig) =>
          LET end == start' + chunk_overlap
          IN  IF SnapPoints # {}
              THEN end = SetMax(SnapPoints) + 1
              ELSE /\ end = start + chunk_size
                   /\ Len(Slice(text, start, end)) = chunk_size]_vars

\* ---- enterprise-doc-pipeline: process_document_orchestrator ----

BlobNames == {"a.pdf", "b.pdf"}

\* what classify_document can return: the six words its prompt asks for and
\* an answer that is none of them, all stripped and lower-cased
Classifications ==
    {"invoice", "contract", "generic", "receipt", "form", "research_paper",
     "invoice."}

processor_map ==
    [invoice |-> "process_invoice", contract |-> "process_contract",
     generic |-> "process_generic_document"]

\* a lookup processor_map[document_type], which has no default
ProcessorWithoutDefault(document_type) ==
    IF document_type \in DOMAIN processor_map
    THEN processor_map[document_type]
    ELSE "KeyError"

\* processor_map.get(document_type, "process_generic_document")
Processor(document_type) ==
    IF document_type \in DOMAIN processor_map
    THEN processor_map[document_type]
    ELSE "process_generic_document"

\* the needs_review a processor can put in what it returns
NeedsReviewOf(processor) ==
    IF processor = "process_generic_document" THEN {FALSE} ELSE BOOLEAN

\* a gate that sends every document for review
ReviewAlways(enriched_data) == TRUE

\* enriched_data.get("needs_review")
ReviewGate(enriched_data) == enriched_data.needs_review

Invoked(name) == <<"invoked", name>>

Completed(name) == <<"completed", name>>

Failed(name) == <<"failed", name>>

\* the orchestrator runs up to its next yield: the awaited activity has
\* completed and the next one is called
Resume(run, next) ==
    [run EXCEPT !.pc = next,
                !.events = run.events \o <<Completed(run.pc), Invoked(next)>>]

\* the awaited activity raised: call_activity raises in the orchestrator,
\* which catches nothing
Raise(run) ==
    [run EXCEPT !.pc = "failed",
                !.events = Append(run.events, Failed(run.pc))]

\* line 67
Finish(run) ==
    [run EXCEPT !.pc = "returned",
                !.events = Append(run.events, Completed(run.pc)),
                !.result = "completed"]

\* lines 38-44
StartOrchestration ==
    /\ orchestration.pc = "new"
    /\ \E b \in BlobNames :
         orchestration' =
             [orchestration EXCEPT !.pc = "classify_document",
                                   !.blob_name = b,
                                   !.events = <<Invoked("classify_document")>>]
    /\ UNCHANGED <<invoice_call, non_pipeline_vars>>

\* lines 41-53
ClassifyDone ==
    /\ orchestration.pc = "classify_document"
    /\ \E t \in Classifications :
         orchestration' =
             [Resume(orchestration, Processor(t))
                 EXCEPT !.document_type = t, !.processor = Processor(t)]
    /\ UNCHANGED <<invoice_call, non_pipeline_vars>>

\* lines 53-58
ProcessorDone ==
    /\ orchestration.pc # ""
    /\ orchestration.pc = orchestration.processor
    /\ \E nr \in NeedsReviewOf(orchestration.processor) :
         orchestration' =
             [Resume(orchestration, "enrich_with_ai")
                 EXCEPT !.needs_review = nr]
    /\ UNCHANGED <<invoice_call, non_pipeline_vars>>

\* lines 55-60; enrich_with_ai returns the dictionary it was given with a
\* summary, key points and embeddings added
EnrichDone ==
    /\ orchestration.pc = "enrich_with_ai"
    /\ orchestration' = Resume(orchestration, "store_metadata")
    /\ UNCHANGED <<invoice_call, non_pipeline_vars>>

\* lines 60-62
StoreDone ==
    /\ orchestration.pc = "store_metadata"
    /\ orchestration' = Resume(orchestration, "index_document")
    /\ UNCHANGED <<invoice_call, non_pipeline_vars>>

\* lines 62-67
IndexDone ==
    /\ orchestration.pc = "index_document"
    /\ orchestration' =
           IF ReviewGate(orchestration)
           THEN Resume(orchestration, "send_for_review")
           ELSE Finish(orchestration)
    /\ UNCHANGED <<invoice_call, non_pipeline_vars>>

\* lines 65-67
ReviewDone ==
    /\ orchestration.pc = "send_for_review"
    /\ orchestration' = Finish(orchestration)
    /\ UNCHANGED <<invoice_call, non_pipeline_vars>>

\* any awaited activity can raise
ActivityFails ==
    /\ orchestration.pc \notin {"new", "returned", "failed"}
    /\ orchestration' = Raise(orchestration)
    /\ UNCHANGED <<invoice_call, non_pipeline_vars>>

NextOrchestrator ==
    \/ StartOrchestration
    \/ ClassifyDone
    \/ ProcessorDone
    \/ EnrichDone
    \/ StoreDone
    \/ IndexDone
    \/ ReviewDone
    \/ ActivityFails

InitOrchestrator ==
    /\ ctor_args = <<1, 0>>
    /\ documents = <<>>
    /\ InitChunker
    /\ InitRetriever
    /\ InitRag
    /\ InitMemory
    /\ InitApi
    /\ InitPipeline
    /\ InitEmbedder

SpecOrchestrator == InitOrchestrator /\ [][NextOrchestrator]_vars

\* the activity names of the events of one kind, in the order they happened
NamesOf(kind) ==
    LET es == SelectSeq(orchestration.events, LAMBDA e : e[1] = kind)
    IN  [i \in 1..Len(es) |-> es[i][2]]

InvokedNames == NamesOf("invoked")

Processors ==
    {"process_invoice", "process_contract", "process_generic_document"}

Workflow ==
    <<"classify_document", orchestration.processor, "enrich_with_ai",
      "store_metadata", "index_document">>

Has(event) ==
    \E i \in 1..Len(orchestration.events) : orchestration.events[i] = event

RunEnded == orchestration.pc \in {"returned", "failed"}

\* the five activities in order, one processor among them, then at most
\* send_for_review
InWorkflowOrder ==
    /\ Len(InvokedNames) <= Len(Workflow) + 1
    /\ \A i \in 1..Len(InvokedNames) :
         IF i <= Len(Workflow)
         THEN InvokedNames[i] = Workflow[i]
         ELSE InvokedNames[i] = "send_for_review"
    /\ Len(InvokedNames) >= 2 => InvokedNames[2] \in Processors

\* an activity is invoked only when the one invoked before it completed
EachAfterPrevious ==
    \A i \in 2..Len(orchestration.events) :
        orchestration.events[i][1] = "invoked" =>
            /\ orchestration.events[i - 1][1] = "completed"
            /\ \E j \in 1..Len(InvokedNames) :
                 /\ j > 1
                 /\ InvokedNames[j] = orchestration.events[i][2]
                 /\ InvokedNames[j - 1] = orchestration.events[i - 1][2]

\* the result is returned only when every invoked activity completed
ResultAfterAll ==
    orchestration.result = "completed" =>
        /\ orchestration.pc = "returned"
        /\ \A i \in 1..Len(InvokedNames) : Has(Completed(InvokedNames[i]))

\* C23: in every run of process_document_orchestrator the activities are
\* invoked in the order classify_document, one processor, enrich_with_ai,
\* store_metadata, index_document, each after the previous one completed;
\* send_for_review is invoked exactly when the enriched data has
\* needs_review true; the result is returned only after all invoked
\* activities completed
C23_WorkflowOrder ==
    /\ InWorkflowOrder
    /\ EachAfterPrevious
    /\ RunEnded =>
         (Has(Invoked("send_for_review")) <=>
             (Has(Completed("enrich_with_ai")) /\ orchestration.needs_review))
    /\ ResultAfterAll

\* C23 amended: the same order, and send_for_review is invoked exactly when
\* index_document completed and the enriched data has needs_review true; an
\* activity that fails ends the run, with no later activity invoked and no
\* result returned
C23_WorkflowOrderUnlessFailed ==
    /\ InWorkflowOrder
    /\ EachAfterPrevious
    /\ RunEnded =>
         (Has(Invoked("send_for_review")) <=>
             (Has(Completed("index_document")) /\ orchestration.needs_review))
    /\ ResultAfterAll
    /\ orchestration.pc = "failed" =>
         /\ orchestration.result = "none"
         /\ orchestration.events[Len(orchestration.events)][1] = "failed"
    /\ \A i \in 1..Len(orchestration.events) :
         orchestration.events[i][1] = "failed" =>
             /\ i = Len(orchestration.events)
             /\ orchestration.pc = "failed"

C23_Witness ==
    /\ orchestration.pc = "returned"
    /\ orchestration.needs_review
    /\ InvokedNames[Len(InvokedNames)] = "send_for_review"
    /\ Len(orchestration.events) = 12

\* the processor the classification calls for
ExpectedProcessor(document_type) ==
    CASE document_type = "invoice" -> "process_invoice"
      [] document_type = "contract" -> "process_contract"
      [] OTHER -> "process_generic_document"

\* C24: once the document is classified exactly one processor activity is
\* invoked for it: process_invoice for 'invoice', process_contract for
\* 'contract', process_generic_document for every other classification; the
\* classification itself never fails the run
C24_OneProcessor ==
    Has(Completed("classify_document")) =>
        /\ Len(InvokedNames) >= 2
        /\ InvokedNames[2] = ExpectedProcessor(orchestration.document_type)
        /\ \A i \in 1..Len(InvokedNames) :
             (i # 2) => InvokedNames[i] \notin Processors
        /\ \A i \in 1..Len(orchestration.events) :
             orchestration.events[i][1] = "failed" =>
                 orchestration.events[i][2] \in
                     {InvokedNames[j] : j \in 1..Len(InvokedNames)}

C24_Witness ==
    /\ orchestration.pc = "returned"
    /\ orchestration.document_type = "invoice."
    /\ InvokedNames[2] = "process_generic_document"

\* ---- enterprise-doc-pipeline: process_invoice ----

MaxItems == 2

\* the content of a recognised field is its text in the document; "None":
\* the field is missing
FieldContents ==
    {"None", "0", "50.00", "50.005", "100.00", "100.01", "$100.00"}

ValueError == 0 - 1

\* float(content), in thousandths; a text that is no number raises
Float(content) ==
    CASE content = "0" -> 0
      [] content = "50.00" -> 50000
      [] content = "50.005" -> 50005
      [] content = "100.00" -> 100000
      [] content = "100.01" -> 100010
      [] OTHER -> ValueError

\* content or 0
OrZero(content) == IF content = "None" THEN "0" ELSE content

\* 0.01, in thousandths
Tolerance == 10

Abs(n) == IF n < 0 THEN 0 - n ELSE n

\* a check that accepts a difference of the tolerance itself
WithinToleranceInclusive(calculated_total, expected_total) ==
    Abs(calculated_total - expected_total) <= Tolerance

\* line 68
WithinTolerance(calculated_total, expected_total) ==
    Abs(calculated_total - expected_total) < Tolerance

\* lines 63-65, for amounts that are all numbers
RECURSIVE CalculatedTotal(_)
CalculatedTotal(amounts) ==
    IF amounts = <<>>
    THEN 0
    ELSE Float(OrZero(Head(amounts))) + CalculatedTotal(Tail(amounts))

\* a float() of lines 63-66 raises
FloatRaises(amounts, total) ==
    \/ \E i \in 1..Len(amounts) : Float(OrZero(amounts[i])) = ValueError
    \/ Float(OrZero(total)) = ValueError

InvoiceResult(call, math_valid, anomalies) ==
    [call EXCEPT !.pc = "returned", !.math_valid = math_valid,
                 !.anomalies = anomalies, !.needs_review = ~math_valid]

\* lines 38-82, from the result of the analysis on
process_invoice(call) ==
    IF ~call.recognised
    THEN InvoiceResult(call, FALSE, 0)
    ELSE IF FloatRaises(call.amounts, call.total)
    THEN [call EXCEPT !.pc = "raised"]
    ELSE IF WithinTolerance(CalculatedTotal(call.amounts),
                            Float(OrZero(call.total)))
    THEN InvoiceResult(call, TRUE, 0)
    ELSE InvoiceResult(call, FALSE, 1)

\* what Document Intelligence recognised: no document, or an invoice with up
\* to MaxItems line items
Analyses ==
    {[NoInvoice EXCEPT !.recognised = TRUE, !.amounts = a, !.total = t] :
        a \in TextsOver(FieldContents, MaxItems), t \in FieldContents}
    \cup {NoInvoice}

ProcessInvoiceCall ==
    /\ invoice_call.pc = "idle"
    /\ invoice_call' = process_invoice(invoice_call)
    /\ UNCHANGED <<orchestration, non_pipeline_vars>>

NextInvoice == ProcessInvoiceCall

InitInvoice ==
    /\ ctor_args = <<1, 0>>
    /\ documents = <<>>
    /\ InitChunker
    /\ InitRetriever
    /\ InitRag
    /\ InitMemory
    /\ InitApi
    /\ orchestration = NoRun
    /\ invoice_call \in Analyses
    /\ InitEmbedder

SpecInvoice == InitInvoice /\ [][NextInvoice]_vars

\* the sum of the line-item amounts and the total as the claim counts them
AmountOf(content) == IF content = "None" THEN 0 ELSE Float(content)

RECURSIVE SumOfAmounts(_)
SumOfAmounts(amounts) ==
    IF amounts = <<>>
    THEN 0
    ELSE AmountOf(Head(amounts)) + SumOfAmounts(Tail(amounts))

MarkedValid ==
    /\ invoice_call.math_valid
    /\ ~invoice_call.needs_review
    /\ invoice_call.anomalies = 0

TotalsAgree ==
    /\ invoice_call.recognised
    /\ Abs(SumOfAmounts(invoice_call.amounts) - AmountOf(invoice_call.total))
           < Tolerance

\* C25: every call of process_invoice gives a verdict: the invoice is marked
\* valid (math_valid true, needs_review false, no anomaly) exactly when an
\* invoice was recognised and the sum of its line-item amounts differs from
\* its total by less than 0.01, missing values counting as 0; in every other
\* case needs_review is true
C25_InvoiceValidity ==
    invoice_call.pc # "idle" =>
        /\ invoice_call.pc = "returned"
        /\ MarkedValid <=> TotalsAgree
        /\ ~MarkedValid => invoice_call.needs_review

\* the verdict of the calls that return
C25_VerdictWhenReturned ==
    invoice_call.pc = "returned" =>
        /\ MarkedValid <=> TotalsAgree
        /\ ~MarkedValid => invoice_call.needs_review

C25_ValidReached ==
    /\ invoice_call.pc = "returned"
    /\ MarkedValid
    /\ invoice_call.amounts = <<"50.00", "50.005">>
    /\ invoice_call.total = "100.00"

\* ---- RAGChain.query: when the chat model is called ----

\* query has returned its dictionary
QueryReturned == search_calls = 1 /\ q_pc = "returned"

\* query is over: it returned or an exception left it
QueryOver == search_calls = 1 /\ q_pc \in {"returned", "raised"}

NoDocumentsAnswer ==
    IF variant = "lc"
    THEN "I don't have any relevant information to answer that question."
    ELSE "I don't have any relevant documents to answer this question."

\* the chat model is called in this step
LlmCalled == llm_calls' # llm_calls

\* C26: when retrieval returns no document, RAGChain.query returns the fixed
\* no-information answer with an empty sources list, and neither calls the
\* chat model nor formats a context; when it returns at least one document
\* the chat model is called exactly once, after the retrieval and after the
\* context was formatted
C26_LlmOnlyWithDocuments ==
    /\ [](/\ (QueryReturned /\ matches = <<>>) =>
               /\ q_result = [answer |-> NoDocumentsAnswer, sources |-> <<>>]
               /\ llm_calls = 0
               /\ context = <<>>
          /\ (QueryOver /\ ~search_failed /\ matches # <<>>) =>
               /\ llm_calls = 1
               /\ context = FormatFor(variant, matches)
          /\ llm_calls <= 1)
    /\ [][LlmCalled =>
            /\ llm_calls' = llm_calls + 1
            /\ search_calls = 1
            /\ matches # <<>>
            /\ context = FormatFor(variant, matches)
            /\ UNCHANGED <<matches, context>>]_vars

C26_Witness ==
    /\ QueryReturned
    /\ Len(matches) = MaxMatches
    /\ llm_calls = 1
    /\ q_result.answer = "ans"

\* ---- ConversationMemory.save_message: one new item per save ----

\* this step is a save_message call that returned
SavedInStep == mem_call'.op = "save" /\ mem_call'.ok

\* C27: every successful save_message adds one new message to its session:
\* the session holds one item more than before and every earlier item is
\* still stored, also when the clock reading is the one of an earlier save
C27_SaveAddsOne ==
    [][SavedInStep =>
          /\ Cardinality(SessionItems(store', mem_call'.session_id)) =
                 Cardinality(SessionItems(store, mem_call'.session_id)) + 1
          /\ store \subseteq store']_vars

\* the same for the saves that read a later clock value than every save
\* before them
C27_SaveAddsOneOnNewReading ==
    [][(SavedInStep /\ clock' # clock) =>
          /\ Cardinality(SessionItems(store', mem_call'.session_id)) =
                 Cardinality(SessionItems(store, mem_call'.session_id)) + 1
          /\ store \subseteq store']_vars

\* ---- the agent API: a delete and a task in flight ----

\* this step adds an item to the session's stored messages
WritesFor(sid) == ~(SessionItems(store', sid) \subseteq SessionItems(store, sid))

\* this step is a delete_session request answered with success
DeleteCompletes(sid) ==
    /\ response' = Reply("delete", sid, 200)
    /\ UNCHANGED <<inflight, tasks_started>>

\* C28: once delete_session for a session has completed the session is
\* unregistered, and while it stays unregistered no message of it is written
\* to the conversation memory, whatever process_task request on it was
\* awaiting the chat model when the delete ran
C28_DeleteIsFinal ==
    [][\A sid \in SessionIds :
          /\ DeleteCompletes(sid) => active_agents'[sid] = 0
          /\ (sid \in issued /\ active_agents[sid] = 0
                 /\ active_agents'[sid] = 0) => ~WritesFor(sid)]_vars

\* ---- the agent API: chat history and persisted messages ----

\* every user message is followed by an assistant message
UserThenAssistant(messages) ==
    \A i \in 1..Len(messages) :
        messages[i][1] = "user" =>
            /\ i < Len(messages)
            /\ messages[i + 1][1] = "assistant"

\* process_task returned a dictionary, with success True or False
TaskReturned ==
    /\ response.kind = "task"
    /\ response.status = 200
    /\ response.agent # 0

\* C29: after every process_task call that returns, the messages the agent
\* appended to its chat history equal, in order and content, the messages it
\* persisted, and in both every user message is followed by an assistant
\* message
C29_HistoryMatchesMemory ==
    TaskReturned =>
        /\ agents[response.agent].appended = agents[response.agent].persisted
        /\ UserThenAssistant(agents[response.agent].appended)
        /\ UserThenAssistant(agents[response.agent].persisted)

\* the same for the calls in which the reply was saved
C29_HistoryMatchesMemoryOnSuccess ==
    (TaskReturned /\ response.success) =>
        agents[response.agent].appended = agents[response.agent].persisted

\* ---- 01_az_rag_poc: AzureOpenAIEmbedder.embed_documents ----

MaxEmbedDocs == 33

\* batch_size
BatchSize == 16

\* the input: n documents, told apart by their page_content
EmbedInputs == {[k \in 1..n |-> k] : n \in 0..MaxEmbedDocs}

\* a batch that takes one document of the next batch along
BatchOneMore(docs, i) == Slice(docs, i, i + BatchSize + 1)

\* documents[i:i + batch_size]
Batch(docs, i) == Slice(docs, i, i + BatchSize)

\* response.data of the call numbered c: one embedding per text, in the
\* order of the texts
ResponseData(c, batch_texts) == [k \in 1..Len(batch_texts) |-> <<c, k>>]

\* {**doc, "embedding": embedding_data.embedding}
EmbeddedDoc(doc, embedding) == [doc |-> doc, embedding |-> embedding]

\* zip(batch, response.data)
Zip(batch, data) ==
    [k \in 1..Min2(Len(batch), Len(data)) |-> EmbeddedDoc(batch[k], data[k])]

\* lines 159-165
EmbedStart ==
    /\ embed_call.pc = "idle"
    /\ embed_call' = [embed_call EXCEPT !.pc = "loop", !.i = 0,
                                        !.embedded_docs = <<>>]
    /\ UNCHANGED non_embedder_vars

\* lines 167-190: one turn of the for loop; the embeddings call returns or
\* raises
EmbedBatch ==
    /\ embed_call.pc = "loop"
    /\ embed_call.i < Len(embed_call.documents)
    /\ \E ok \in BOOLEAN :
         LET batch == Batch(embed_call.documents, embed_call.i)
             c     == Len(embed_call.calls) + 1
         IN  embed_call' =
                 [embed_call EXCEPT
                     !.i = embed_call.i + BatchSize,
                     !.calls = Append(@, [texts |-> batch, ok |-> ok]),
                     !.embedded_docs =
                         IF ok THEN @ \o Zip(batch, ResponseData(c, batch))
                         ELSE @]
    /\ UNCHANGED non_embedder_vars

\* lines 192-193
EmbedReturn ==
    /\ embed_call.pc = "loop"
    /\ embed_call.i >= Len(embed_call.documents)
    /\ embed_call' = [embed_call EXCEPT !.pc = "returned"]
    /\ UNCHANGED non_embedder_vars

NextEmbedder == EmbedStart \/ EmbedBatch \/ EmbedReturn

InitEmbedderSpec ==
    /\ ctor_args = <<1, 0>>
    /\ documents = <<>>
    /\ InitChunker
    /\ InitRetriever
    /\ InitRag
    /\ InitMemory
    /\ InitApi
    /\ InitPipeline
    /\ \E docs \in EmbedInputs :
         embed_call = [NoEmbedding EXCEPT !.documents = docs]

SpecEmbedder == InitEmbedderSpec /\ [][NextEmbedder]_vars

\* the batch a document of the input falls in, and its place there
BatchOf(j) == ((j - 1) \div 16) + 1

PlaceOf(j) == ((j - 1) % 16) + 1

BatchCount == (Len(embed_call.documents) + 15) \div 16

\* the documents of the batches whose call succeeded, in input order, each
\* with the embedding at its place in its batch's response
EmbeddedOfSucceeded ==
    SelectSeq([j \in 1..Len(embed_call.documents) |->
                  [doc |-> embed_call.documents[j],
                   embedding |-> <<BatchOf(j), PlaceOf(j)>>]],
              LAMBDA e : embed_call.calls[e.embedding[1]].ok)

\* C30: embed_documents splits the input into consecutive batches of at most
\* 16 documents and issues one embedding call per batch, in order; it
\* returns, in input order, exactly the documents of the batches whose call
\* succeeded, each with the embedding at its own position in the response; a
\* failed batch drops its documents and stops nothing
C30_BatchesAndFailures ==
    /\ \A c \in 1..Len(embed_call.calls) :
         /\ Len(embed_call.calls[c].texts) \in 1..16
         /\ \A k \in 1..Len(embed_call.calls[c].texts) :
              /\ (c - 1) * 16 + k <= Len(embed_call.documents)
              /\ embed_call.calls[c].texts[k] =
                     embed_call.documents[(c - 1) * 16 + k]
         /\ c < BatchCount => Len(embed_call.calls[c].texts) = 16
    /\ embed_call.pc = "returned" =>
         /\ Len(embed_call.calls) = BatchCount
         /\ \A j \in 1..Len(embed_call.documents) :
              \E c \in 1..Len(embed_call.calls) :
                  \E k \in 1..Len(embed_call.calls[c].texts) :
                      (c - 1) * 16 + k = j
         /\ embed_call.embedded_docs = EmbeddedOfSucceeded

C30_Witness ==
    /\ embed_call.pc = "returned"
    /\ Len(embed_call.documents) = 33
    /\ Len(embed_call.calls) = 3
    /\ embed_call.calls[1].ok
    /\ ~embed_call.calls[2].ok
    /\ embed_call.calls[3].ok
    /\ Len(embed_call.embedded_docs) = 17
    /\ embed_call.embedded_docs[17] = [doc |-> 33, embedding |-> <<3, 1>>]

====
